---- MODULE Spec2Model ----
(***************************************************************************)
(* Model of the chat server's message-send request handler                 *)
(* (src/server/routes.ts), its storage collaborators                       *)
(* (src/server/storage.ts) and the admin user routes.                      *)
(*                                                                         *)
(* A request is a process whose position (pc) names the awaited operation  *)
(* that is pending: a database statement or a provider call.  Each action  *)
(* performs the awaited operation and runs the handler's code up to the    *)
(* next await.                                                             *)
(***************************************************************************)
EXTENDS Integers, Sequences, FiniteSets, TLC

\* ------------------------------------------------------------------------
\* Bounds of the model
\* ------------------------------------------------------------------------
MaxRequests == 2
MaxAdminOps == 1
MaxConfigUpdates == 2
MaxListRequests == 1

Requests == 1..MaxRequests

\* The GET /api/conversations/:id/messages requests of a run.
ListRequests == 1..MaxListRequests

\* Forgot-password requests of a run.
MaxForgotRequests == 2
ForgotRequests == 1..MaxForgotRequests

\* users.email of the accounts.
EmailOf(u) == u \o "@example.com"

\* The emails submitted to the forgot-password form: one of an account, one of
\* nobody, and a text that is no email address.
SubmittedEmails == {"u1@example.com", "nobody@example.com", "u1"}

\* crypto.randomBytes(32).toString('hex'): values the generator can return.
ResetTokens == {"5f3c", "a91e"}

\* The POST /api/admin/config requests of a run.
ConfigUpdates == 1..MaxConfigUpdates

\* ------------------------------------------------------------------------
\* Fixed data
\* ------------------------------------------------------------------------
Users == {"u1", "u2"}

\* Stored conversations and the user each belongs to; MissingConv is an id
\* that no row has.
ConvIds == {1, 2}
MissingConv == Cardinality(ConvIds) + 1
ConvOwner(c) == IF c = 1 THEN "u1" ELSE "u2"

\* Provider priority order of the handler.
ProviderOrder == <<"qwen", "deepseek", "openai">>
ProviderSet == {"qwen", "deepseek", "openai"}


DefaultContent == "I apologize, but I couldn't generate a response at the moment."
AllUnavailable == "All AI services are currently unavailable. Please check your API key configurations."
QwenDeepseekFailed == "Qwen and DeepSeek APIs failed. Please check your API keys or try again later."
QwenNoValidFallback == "Qwen API failed and no valid fallback available. Please check your API keys."
QwenNoFallbackKeys == "Qwen API failed and no fallback API keys are configured."

\* Message texts a client submits (40 characters in Content40) and the
\* answer texts a provider returns (200 characters in Answer200).
Content40 == "Tell me about the history of Hong Kong.."
Answer50 == "Hong Kong is a city on the southern coast of China"
Answer200 == Answer50 \o Answer50 \o Answer50 \o Answer50
Contents == {"What is the capital of France and why?", Content40}

\* Message texts that exercise the title derivation: a run of two spaces, a
\* tab and a newline between words, six words longer than 50 characters, and
\* (in TitleTexts) a text that is itself a sentinel title.
SpacedText == "Plan  a trip to Rome for me in May"
TabbedText == "Plan a\ttrip to\nRome for me in May"
LongText == "Pneumonoultramicroscopicsilicovolcanoconiosis is the longest word in English"
TitleTexts == {SpacedText, LongText, "New Chat"}
Answers == {"Paris.", Answer200}

\* Upload policy of the server (multer options, routes.ts 31-48).
MaxFileSize == 10 * 1024 * 1024

Docx == "application/vnd.openxmlformats-officedocument.wordprocessingml.document"
Xlsx == "application/vnd.openxmlformats-officedocument.spreadsheetml.sheet"

AllowedTypes ==
  {"image/jpeg", "image/png", "image/gif", "application/pdf", Docx, Xlsx, "text/plain"}

\* A file a client attaches: text is what the extractor of its type yields
\* from its bytes, base64 the base64 form of its bytes.
File(name, mimetype, size, text, base64) ==
  [originalname |-> name, mimetype |-> mimetype, size |-> size, text |-> text,
   base64 |-> base64]

Photo == File("photo.png", "image/png", 2048, "", "iVBORw0KGgo=")
Scan == File("scan.jpg", "image/jpeg", MaxFileSize, "", "/9j/4AAQSkZJRg==")
Anim == File("anim.webp", "image/webp", 2048, "", "UklGRiQAAABXRUJQ")
Notes == File("notes.txt", "text/plain", 16, "Meeting at noon.", "TWVldGluZyBhdCBub29uLg==")
Report == File("report.pdf", "application/pdf", 4096, "Quarterly report", "JVBERi0xLjQ=")
Sheet == File("empty.xlsx", Xlsx, 4096, "", "UEsDBBQAAAA=")
Archive == File("src.zip", "application/zip", 4096, "", "UEsDBAoAAAA=")
Huge == File("huge.pdf", "application/pdf", MaxFileSize + 1, "Annual report", "JVBERi0xLjc=")
HugeArchive == File("huge.zip", "application/zip", MaxFileSize + 1, "", "UEsDBAoAAAB=")

\* The file lists of the requests, in upload order.
Uploads ==
  {<<>>, <<Photo>>, <<Notes, Photo, Scan>>, <<Report, Sheet, Notes>>, <<Anim>>,
   <<Photo, Archive, Notes>>, <<Photo, Huge, Notes>>, <<HugeArchive, Notes>>}

\* Images a client pastes from the clipboard, as {filename, base64, mimeType}
\* entries: one whose base64 is a data URL, one with bare base64 and no
\* filename, one without mimeType.
Pasted(filename, base64, mimeType) ==
  [filename |-> filename, base64 |-> base64, mimeType |-> mimeType]

Clip == Pasted("clip.png", "data:image/png;base64,iVBORw0KGgoAAAANSUhEUg==", "image/png")
ClipRaw == Pasted("", "R0lGODlhAQABAAAAACw=", "image/gif")
ClipNoMime == Pasted("nomime.png", "iVBORw0KGgoAAAAEAAAABA==", "")

\* What a request carries in its imageData field: the entries and how the
\* body is encoded, "multipart" (FormData, chat.tsx 86-103: the field holds
\* JSON.stringify of the entries) or "json" (a body sent as application/json,
\* where the field holds the array itself); no field when entries is empty.
Paste(encoding, entries) == [encoding |-> encoding, entries |-> entries]

NoPaste == Paste("multipart", <<>>)

Pastes ==
  {NoPaste, Paste("multipart", <<Clip>>), Paste("multipart", <<Clip, ClipRaw, ClipNoMime>>),
   Paste("json", <<Clip, ClipRaw, ClipNoMime>>)}

\* How a provider call settles: "throw" rejects (network error, non-2xx, a
\* body without choices); any other outcome is the content of
\* response.choices[0]?.message, "" for a response that carries no text.
Outcomes == {"throw", ""} \cup Answers

\* Quotas an admin sets: one already used up, one below the cost of a long
\* answer, one above it.
Quotas == {0, 50, 100}

VARIABLES
  env,            \* the providers whose API key is set in process.env
  health,         \* how each provider's call settles
  users,          \* users table: tokenUsed, tokenQuota, isActive per user
  conversations,  \* conversations table
  messages,       \* messages table, in insertion order; a row's id is its index
  pc,             \* per request: the awaited operation that is pending
  req,            \* per request: the handler's locals
  sessions,       \* session store: the users who hold a session
  adminBudget,    \* number of admin operations still to come
  faults,         \* whether database statements can fail and the process can die
  crashed,        \* the server process has died
  client,         \* the clients of this run: the texts, file lists and pasted
                  \* images they submit, and whether each send waits for the
                  \* response to the previous one
  disk,           \* the paths of the files in uploads/
  adminConfig,    \* admin_config table, in insertion order
  cfg,            \* per admin configuration request: position, body, status
  lst,            \* per message-list request: position, user, conversation,
                  \* status, log lines, rejected calls
  emailService,   \* whether the SMTP settings were complete at start
  forgot          \* per forgot-password request: position, email, response,
                  \* rejected calls

vars == <<env, health, users, conversations, messages, pc, req, sessions, adminBudget,
          faults, crashed, client, disk, adminConfig, cfg, lst, emailService, forgot>>

\* ------------------------------------------------------------------------
\* Pure helpers of the handler
\* ------------------------------------------------------------------------
Min(a, b) == IF a < b THEN a ELSE b

FloorQuarter(n) == n \div 4

\* Math.ceil(n / 4) for n >= 0.
CeilQuarter(n) == IF n % 4 = 0 THEN n \div 4 ELSE (n \div 4) + 1

\* const estimatedTokens = Math.ceil((content.length + aiContent.length) / 4)
EstimatedTokens(content, aiContent) == CeilQuarter(Len(content) + Len(aiContent))

\* The pieces of s between the positions in seps, in order, empty pieces kept.
Pieces(s, seps) ==
  LET n == Cardinality(seps)
      at(k) == IF k = 0 THEN 0
               ELSE IF k = n + 1 THEN Len(s) + 1
               ELSE CHOOSE i \in seps : Cardinality({j \in seps : j < i}) = k - 1
  IN [k \in 1..(n + 1) |-> SubSeq(s, at(k - 1) + 1, at(k) - 1)]

\* String.prototype.split(' '): one piece per single space, empty pieces kept.
Split(s) == Pieces(s, {i \in 1..Len(s) : SubSeq(s, i, i) = " "})

\* Array.prototype.join(' ')
RECURSIVE Join(_)
Join(ws) ==
  IF Len(ws) = 0 THEN ""
  ELSE IF Len(ws) = 1 THEN ws[1]
  ELSE ws[1] \o " " \o Join(Tail(ws))

TitleWords == 6
TitleMax == 50
TitleCut == 47

\* words = content.split(' ').slice(0, 6).join(' ');
\* newTitle = words.length > 50 ? words.substring(0, 47) + '...' : words
NewTitle(content) ==
  LET ws == Split(content)
      words == Join(SubSeq(ws, 1, Min(TitleWords, Len(ws))))
  IN IF Len(words) > TitleMax THEN SubSeq(words, 1, TitleCut) \o "..." ELSE words

SentinelTitles == {"New Conversation", "New Chat"}

\* ------------------------------------------------------------------------
\* Uploads (multer, routes.ts 31-48) and attachment processing (50-87, 184-226)
\* ------------------------------------------------------------------------
\* fileFilter: cb(null, allowedTypes.includes(file.mimetype))
FileFilter(file) == file.mimetype \in AllowedTypes

\* file.mimetype.startsWith('image/')
IsImage(file) == Len(file.mimetype) >= 6 /\ SubSeq(file.mimetype, 1, 6) = "image/"

\* The files that pass the filter, in upload order; the others are skipped.
Filtered(upload) == SelectSeq(upload, FileFilter)

\* limits.fileSize: a file that passed the filter and is longer than the limit
\* makes multer fail the request with LIMIT_FILE_SIZE.
TooLarge(upload) == \E i \in 1..Len(Filtered(upload)) : Filtered(upload)[i].size > MaxFileSize

\* req.files of request r: the stored files, each under its own path in uploads/.
StoredFiles(r, upload) ==
  [i \in 1..Len(Filtered(upload)) |->
     [originalname |-> Filtered(upload)[i].originalname,
      mimetype |-> Filtered(upload)[i].mimetype,
      size |-> Filtered(upload)[i].size,
      path |-> <<r, i>>,
      text |-> Filtered(upload)[i].text,
      base64 |-> Filtered(upload)[i].base64]]

Paths(files) == {files[i].path : i \in 1..Len(files)}

\* attachments = files.map(file => ({filename, mimetype, size, path}))
Attachments(files) ==
  [i \in 1..Len(files) |->
     [filename |-> files[i].originalname, mimetype |-> files[i].mimetype,
      size |-> files[i].size, path |-> files[i].path]]

ExtractError == "Error: extraction failed"

\* processDocument(filePath, mimeType); ok = FALSE when reading or parsing throws.
ProcessDocument(file, ok) ==
  IF ~ok THEN "[Error processing file: " \o ExtractError \o "]"
  ELSE IF file.mimetype \in {"application/pdf", Docx, Xlsx, "text/plain"} THEN file.text
  ELSE "[File: " \o file.mimetype \o "]"

\* extractedText.trim() is empty
RECURSIVE IsBlank(_)
IsBlank(s) ==
  IF s = "" THEN TRUE
  ELSE SubSeq(s, 1, 1) \in {" ", "\t", "\n"} /\ IsBlank(SubSeq(s, 2, Len(s)))

\* What one document adds to documentContent (lines 213-217).
DocumentSlotDropping(file, ok) ==
  IF ~ok \/ IsBlank(ProcessDocument(file, ok)) THEN ""
  ELSE "\n\n--- Content from " \o file.originalname \o " ---\n"
         \o ProcessDocument(file, ok) \o "\n"

DocumentSlot(file, ok) ==
  IF IsBlank(ProcessDocument(file, ok)) THEN ""
  ELSE "\n\n--- Content from " \o file.originalname \o " ---\n"
         \o ProcessDocument(file, ok) \o "\n"

\* The loop of lines 201-225 over files[i..]; reads[i] tells whether reading
\* (and, for a document, parsing) file i succeeds.
RECURSIVE DocumentContent(_, _, _)
DocumentContent(files, reads, i) ==
  IF i > Len(files) THEN ""
  ELSE (IF IsImage(files[i]) THEN "" ELSE DocumentSlot(files[i], reads[i]))
         \o DocumentContent(files, reads, i + 1)

RECURSIVE ProcessedImages(_, _, _)
ProcessedImages(files, reads, i) ==
  IF i > Len(files) THEN <<>>
  ELSE (IF IsImage(files[i]) /\ reads[i]
        THEN <<[filename |-> files[i].originalname, base64 |-> files[i].base64,
                mimeType |-> files[i].mimetype]>>
        ELSE <<>>)
         \o ProcessedImages(files, reads, i + 1)

\* fs.unlinkSync over the files, each in its own try/catch (lines 447-455):
\* the files whose unlink throws (stuck) stay, all others go.
RECURSIVE CleanUpStoppingAtFailure(_, _, _)
CleanUpStoppingAtFailure(onDisk, files, stuck) ==
  IF files = <<>> \/ Head(files).path \in stuck THEN onDisk
  ELSE CleanUpStoppingAtFailure(onDisk \ {Head(files).path}, Tail(files), stuck)

CleanUp(onDisk, files, stuck) == onDisk \ (Paths(files) \ stuck)

\* value || fallback for strings
ContentOr(content, fallback) == IF content = "" THEN fallback ELSE content

\* JSON.stringify of the entries (chat.tsx 96).
JsonEntry(e) ==
  "{\"filename\":\"" \o e.filename \o "\",\"base64\":\"" \o e.base64
    \o "\",\"mimeType\":\"" \o e.mimeType \o "\"}"

RECURSIVE JsonEntries(_)
JsonEntries(entries) ==
  IF entries = <<>> THEN ""
  ELSE IF Len(entries) = 1 THEN JsonEntry(entries[1])
  ELSE JsonEntry(entries[1]) \o "," \o JsonEntries(Tail(entries))

JsonStringify(entries) == "[" \o JsonEntries(entries) \o "]"

\* req.body.imageData as the handler sees it: isArray tells what
\* Array.isArray(imageData) yields; a multipart text field is a string (text),
\* an absent field is undefined (the empty text).
BodyImageData(paste) ==
  IF paste.entries = <<>> THEN [isArray |-> FALSE, text |-> "", items |-> <<>>]
  ELSE IF paste.encoding = "multipart"
  THEN [isArray |-> FALSE, text |-> JsonStringify(paste.entries), items |-> <<>>]
  ELSE [isArray |-> TRUE, text |-> "", items |-> paste.entries]

\* The characters of \w.
WordChars ==
  LET cs == "abcdefghijklmnopqrstuvwxyzABCDEFGHIJKLMNOPQRSTUVWXYZ0123456789_"
  IN {SubSeq(cs, i, i) : i \in 1..Len(cs)}

\* The end of the longest run of \w characters of s that starts at i (i - 1
\* when there is none).
RECURSIVE WordEnd(_, _)
WordEnd(s, i) ==
  IF i <= Len(s) /\ SubSeq(s, i, i) \in WordChars THEN WordEnd(s, i + 1) ELSE i - 1

DataUrlHead == "data:image/"
DataUrlTail == ";base64,"

\* base64.replace(/^data:image\/\w+;base64,/, '')
StripDataUrl(base64) ==
  LET from == Len(DataUrlHead) + 1
      to == WordEnd(base64, from)
  IN IF /\ Len(base64) >= Len(DataUrlHead)
        /\ SubSeq(base64, 1, Len(DataUrlHead)) = DataUrlHead
        /\ to >= from
        /\ Len(base64) >= to + Len(DataUrlTail)
        /\ SubSeq(base64, to + 1, to + Len(DataUrlTail)) = DataUrlTail
     THEN SubSeq(base64, to + Len(DataUrlTail) + 1, Len(base64))
     ELSE base64

\* The loop of lines 229-240 over imageData[i..].
RECURSIVE ClipboardImages(_, _)
ClipboardImages(imageData, i) ==
  IF ~imageData.isArray \/ i > Len(imageData.items) THEN <<>>
  ELSE (IF imageData.items[i].base64 # "" /\ imageData.items[i].mimeType # ""
        THEN <<[filename |-> ContentOr(imageData.items[i].filename, "pasted-image.png"),
                base64 |-> StripDataUrl(imageData.items[i].base64),
                mimeType |-> imageData.items[i].mimeType]>>
        ELSE <<>>)
         \o ClipboardImages(imageData, i + 1)

\* ------------------------------------------------------------------------
\* Assembly of chatMessages (lines 252-304)
\* ------------------------------------------------------------------------
\* An entry of chatMessages: content is a string (isArray FALSE, text) or a
\* list of segments (isArray TRUE, parts).
TextTurn(role, text) == [role |-> role, isArray |-> FALSE, text |-> text, parts |-> <<>>]

PartsTurn(role, parts) == [role |-> role, isArray |-> TRUE, text |-> "", parts |-> parts]

ImageParts(images) ==
  [i \in 1..Len(images) |->
     [type |-> "image_url",
      url |-> "data:" \o images[i].mimeType \o ";base64," \o images[i].base64]]

\* attachmentArray.map(att => `[Attached file: ...]`).join(' ')
AttachmentInfo(attachments) ==
  Join([i \in 1..Len(attachments) |->
          "[Attached file: " \o attachments[i].filename \o " ("
            \o attachments[i].mimetype \o ")]"])

\* The entry for the user row msg with id `id`; current tells whether it is
\* the row this request inserted (msg.id === userMessage.id).
UserTurnAnyTurn(msg, current, images, documentContent) ==
  IF images # <<>>
  THEN PartsTurn("user",
         <<[type |-> "text",
            text |-> ContentOr(msg.content, "Please analyze these images:")
                       \o documentContent]>> \o ImageParts(images))
  ELSE TextTurn("user", msg.content)

UserTurn(msg, current, images, documentContent) ==
  IF current /\ (images # <<>> \/ documentContent # "")
  THEN IF images # <<>>
       THEN PartsTurn("user",
              <<[type |-> "text",
                 text |-> ContentOr(msg.content, "Please analyze these images:")
                            \o documentContent]>> \o ImageParts(images))
       ELSE TextTurn("user",
              ContentOr(msg.content, "Please analyze this document:") \o documentContent)
  ELSE IF msg.attachments # <<>>
  THEN TextTurn("user", msg.content \o " " \o AttachmentInfo(msg.attachments))
  ELSE TextTurn("user", msg.content)

\* for (const msg of allMessages) over the rows of conversation c from row i on.
RECURSIVE ChatMessages(_, _, _, _, _, _)
ChatMessages(msgs, c, i, userMessageId, images, documentContent) ==
  IF i > Len(msgs) THEN <<>>
  ELSE (IF msgs[i].conversationId # c THEN <<>>
        ELSE IF msgs[i].role = "user"
        THEN <<UserTurn(msgs[i], i = userMessageId, images, documentContent)>>
        ELSE <<TextTurn("assistant", msgs[i].content)>>)
         \o ChatMessages(msgs, c, i + 1, userMessageId, images, documentContent)

\* ------------------------------------------------------------------------
\* Storage operations (src/server/storage.ts) as functions on the tables
\* ------------------------------------------------------------------------
\* getConversation(id, userId): the row with that id owned by userId, if any.
HasConversationOfAnyUser(id, userId) == id \in DOMAIN conversations

HasConversation(id, userId) ==
  id \in DOMAIN conversations /\ conversations[id].userId = userId

\* addMessage: insert; the new row's id is its position in the table.
AddMessage(msgs, m) == Append(msgs, m)

\* updateConversation(id, updates): set the given title, bump updatedAt.
UpdateConversationTitle(cs, id, title) ==
  [cs EXCEPT ![id].title = title, ![id].updatedAt = @ + 1]

UpdateConversationTouch(cs, id) == [cs EXCEPT ![id].updatedAt = @ + 1]

ToggleUserStatus(us, userId, isActive) == [us EXCEPT ![userId].isActive = isActive]

UpdateUserQuotaResetting(us, userId, quota) ==
  [us EXCEPT ![userId].tokenQuota = quota, ![userId].tokenUsed = 0]

UpdateUserQuota(us, userId, quota) == [us EXCEPT ![userId].tokenQuota = quota]

UpdateUserTokenUsageCapped(us, userId, tokensUsed) ==
  [us EXCEPT ![userId].tokenUsed =
     IF @ + tokensUsed > us[userId].tokenQuota THEN us[userId].tokenQuota ELSE @ + tokensUsed]

\* tokenUsed: sql`${users.tokenUsed} + ${tokensUsed}` evaluated by the store.
UpdateUserTokenUsage(us, userId, tokensUsed) ==
  [us EXCEPT ![userId].tokenUsed = @ + tokensUsed]

\* updateAdminConfig (storage.ts 189-199): its two statements.
\* db.update(adminConfig).set({ isActive: false })
DeactivateAll(rows) == [i \in 1..Len(rows) |-> [rows[i] EXCEPT !.isActive = FALSE]]

\* db.insert(adminConfig).values({ ...configData, isActive: true })
InsertActive(rows, body) == Append(rows, [apiProvider |-> body, isActive |-> TRUE])

\* ------------------------------------------------------------------------
\* Provider fallback chain (routes.ts, lines 306-409)
\* ------------------------------------------------------------------------
\* The pending provider calls.  openai is called from two places: in the catch
\* of the deepseek call ("openaiAfterDeepseek") and, when deepseek has no key,
\* directly in the catch of the qwen call ("openaiDirect").
CallStages == {"qwen", "deepseek", "openaiAfterDeepseek", "openaiDirect"}

StageProvider(stage) ==
  IF stage = "qwen" THEN "qwen"
  ELSE IF stage = "deepseek" THEN "deepseek"
  ELSE "openai"

\* A step of the chain gives the handler's next position and the values of
\* aiContent and aiProvider.  next = "throw" stands for an exception that
\* leaves the chain and reaches the handler's outer catch.
ChainResult(next, aiContent, aiProvider) ==
  [next |-> next, aiContent |-> aiContent, aiProvider |-> aiProvider]

\* aiContent = response.choices[0]?.message?.content || aiContent
AnswerOr(content, aiContent) == IF content = "" THEN aiContent ELSE content

\* let aiContent = "I apologize, ..."; let aiProvider = "none";
\* try { if (process.env.QWEN_API_KEY) { await qwen... } } catch ...
\* Without a qwen key the try block does nothing and the catch never runs.
ChainStart(keys) ==
  IF "qwen" \in keys THEN ChainResult("qwen", DefaultContent, "none")
  ELSE ChainResult("addAiMessage", DefaultContent, "none")

\* The qwen call settles: lines 329-330 on a response, the catch at 332-408
\* on an exception.
QwenSettledNoExit(keys, outcome, aiContent, aiProvider) ==
  IF "deepseek" \in keys
  THEN ChainResult("deepseek", AnswerOr(outcome, aiContent),
                   IF outcome # "throw" THEN "qwen" ELSE aiProvider)
  ELSE IF outcome # "throw"
  THEN ChainResult("addAiMessage", AnswerOr(outcome, aiContent), "qwen")
  ELSE IF "openai" \in keys THEN ChainResult("openaiDirect", aiContent, aiProvider)
  ELSE ChainResult("addAiMessage", QwenNoFallbackKeys, aiProvider)

QwenSettledRethrow(keys, outcome, aiContent, aiProvider) ==
  IF outcome # "throw"
  THEN ChainResult("addAiMessage", AnswerOr(outcome, aiContent), "qwen")
  ELSE IF "deepseek" \in keys THEN ChainResult("deepseek", aiContent, aiProvider)
  ELSE IF "openai" \in keys THEN ChainResult("openaiDirect", aiContent, aiProvider)
  ELSE ChainResult("throw", aiContent, aiProvider)

QwenSettled(keys, outcome, aiContent, aiProvider) ==
  IF outcome # "throw"
  THEN ChainResult("addAiMessage", AnswerOr(outcome, aiContent), "qwen")
  ELSE IF "deepseek" \in keys THEN ChainResult("deepseek", aiContent, aiProvider)
  ELSE IF "openai" \in keys THEN ChainResult("openaiDirect", aiContent, aiProvider)
  ELSE ChainResult("addAiMessage", QwenNoFallbackKeys, aiProvider)

\* The deepseek call settles: lines 351-352, catch at 353-381.
DeepseekSettledStopping(keys, outcome, aiContent, aiProvider) ==
  IF outcome # "throw"
  THEN ChainResult("addAiMessage", AnswerOr(outcome, aiContent), "deepseek")
  ELSE ChainResult("addAiMessage", QwenDeepseekFailed, "deepseek")

DeepseekSettled(keys, outcome, aiContent, aiProvider) ==
  IF outcome # "throw"
  THEN ChainResult("addAiMessage", AnswerOr(outcome, aiContent), "deepseek")
  ELSE IF "openai" \in keys THEN ChainResult("openaiAfterDeepseek", aiContent, aiProvider)
  ELSE ChainResult("addAiMessage", QwenDeepseekFailed, aiProvider)

\* The openai call settles: lines 372-377 (after deepseek) and 399-404
\* (directly after qwen).
OpenaiSettled(stage, outcome, aiContent, aiProvider) ==
  IF outcome # "throw"
  THEN ChainResult("addAiMessage", AnswerOr(outcome, aiContent), "openai")
  ELSE IF stage = "openaiAfterDeepseek"
  THEN ChainResult("addAiMessage", AllUnavailable, aiProvider)
  ELSE ChainResult("addAiMessage", QwenNoValidFallback, aiProvider)

\* The system message of the qwen call (line 322) and of the deepseek and
\* openai calls (lines 344, 365, 392).
VisionInstruction ==
  "You are a helpful AI assistant with vision capabilities. When analyzing images, "
    \o "provide detailed descriptions including objects, text, colors, composition, and "
    \o "any relevant insights. For documents, extract and summarize key information. "
    \o "Be thorough and specific in your analysis."

TextInstruction ==
  "You are a helpful AI assistant. Provide clear, accurate, and helpful responses. "
    \o "When analyzing files, be thorough and specific in your analysis."

\* const modelToUse = processedImages.length > 0 ? 'qwen-vl-plus' : 'qwen-plus'
ModelToUseTextOnly(processedImages) == "qwen-plus"

ModelToUse(processedImages) ==
  IF Len(processedImages) > 0 THEN "qwen-vl-plus" ELSE "qwen-plus"

\* The model and the system message of the chat.completions.create call of a
\* stage; the messages that follow the system message are chatMessages.
CallRequest(stage, processedImages) ==
  IF stage = "qwen"
  THEN [model |-> ModelToUse(processedImages), system |-> VisionInstruction]
  ELSE IF stage = "deepseek"
  THEN [model |-> "deepseek-chat", system |-> TextInstruction]
  ELSE [model |-> "gpt-4o", system |-> TextInstruction]

\* No provider call is pending.
NoCall == [model |-> "", system |-> ""]

\* ------------------------------------------------------------------------
\* State
\* ------------------------------------------------------------------------
\* req.user before loadUser has set it.
NoUser == [id |-> "", tokenUsed |-> 0, tokenQuota |-> 0]

\* A request's body (content, upload: the files of the multipart body, paste:
\* the pasted images, imageData: the field of req.body that carries them) and
\* the handler's locals.  status 0: no response sent yet.  userMessage and
\* aiMessage hold the id of the inserted row, 0 before the insert.  errors
\* holds the console.error lines the request has written, failed the calls of
\* the request that were rejected (storage statements, the upload middleware,
\* file system calls).
NewRequest ==
  [session |-> "", user |-> NoUser, conversationId |-> 0, content |-> "",
   upload |-> <<>>, paste |-> NoPaste, imageData |-> BodyImageData(NoPaste),
   files |-> <<>>, processedImages |-> <<>>, documentContent |-> "",
   chatMessages |-> <<>>, call |-> NoCall,
   title |-> "", userMessage |-> 0, aiContent |-> "",
   aiProvider |-> "", invoked |-> <<>>, aiMessage |-> 0, estimatedTokens |-> 0,
   status |-> 0, errors |-> {}, failed |-> {}]

DefaultQuota == 10000

\* The tables as the server finds them at start.
InitTables ==
  /\ users = [u \in Users |-> [tokenUsed |-> 0, tokenQuota |-> DefaultQuota, isActive |-> TRUE,
                              email |-> EmailOf(u), resetToken |-> ""]]
  /\ conversations = [c \in ConvIds |->
       [userId |-> ConvOwner(c), title |-> "New Conversation", updatedAt |-> 0]]
  /\ messages = <<>>
  /\ disk = {}
  /\ req = [r \in Requests |-> NewRequest]
  /\ crashed = FALSE

\* A configuration request before it arrives.
NewConfigUpdate(position) == [pc |-> position, body |-> "", status |-> 0]

NoConfigUpdates == [o \in ConfigUpdates |-> NewConfigUpdate("unused")]

\* A message-list request before it arrives.
NewListRequest(position) ==
  [pc |-> position, user |-> "", conversationId |-> 0, status |-> 0, errors |-> {},
   failed |-> {}]

NoListRequests == [l \in ListRequests |-> NewListRequest("unused")]

\* A forgot-password request before it arrives.
NewForgotRequest(position) ==
  [pc |-> position, email |-> "", user |-> "", resetToken |-> "", status |-> 0,
   message |-> "", failed |-> {}]

NoForgotRequests == [f \in ForgotRequests |-> NewForgotRequest("unused")]

Uniform(outcome) == [p \in ProviderSet |-> outcome]

\* One request, in an environment where database statements can fail and the
\* process can die, for every combination of configured keys and provider
\* health.
InitSingle ==
  /\ env \in SUBSET ProviderSet
  /\ health \in [ProviderSet -> Outcomes]
  /\ faults = TRUE
  /\ adminBudget = 0
  /\ sessions = Users
  /\ pc = [r \in Requests |-> IF r = 1 THEN "idle" ELSE "unused"]
  /\ client = [texts |-> Contents, uploads |-> {<<>>}, pastes |-> {NoPaste},
               serial |-> FALSE]
  /\ cfg = NoConfigUpdates
  /\ adminConfig = <<>>
  /\ lst = NoListRequests
  /\ emailService = FALSE
  /\ forgot = NoForgotRequests
  /\ InitTables

\* One request and an admin at work, in the same faulty environment, all keys
\* configured, the providers all answering or all failing.
InitAdmin ==
  /\ env = ProviderSet
  /\ health \in {Uniform(Answer200), Uniform("throw")}
  /\ faults = TRUE
  /\ adminBudget = MaxAdminOps
  /\ sessions = Users
  /\ pc = [r \in Requests |-> IF r = 1 THEN "idle" ELSE "unused"]
  /\ client = [texts |-> Contents, uploads |-> {<<>>}, pastes |-> {NoPaste},
               serial |-> FALSE]
  /\ cfg = NoConfigUpdates
  /\ adminConfig = <<>>
  /\ lst = NoListRequests
  /\ emailService = FALSE
  /\ forgot = NoForgotRequests
  /\ InitTables

\* Concurrent requests of one user in a fault-free environment with no admin
\* at work, all keys configured, the providers all answering or all failing.
InitConcurrent ==
  /\ env = ProviderSet
  /\ health \in {Uniform(Answer200), Uniform("throw")}
  /\ faults = FALSE
  /\ adminBudget = 0
  /\ sessions = {"u1"}
  /\ pc = [r \in Requests |-> "idle"]
  /\ client = [texts |-> Contents, uploads |-> {<<>>}, pastes |-> {NoPaste},
               serial |-> FALSE]
  /\ cfg = NoConfigUpdates
  /\ adminConfig = <<>>
  /\ lst = NoListRequests
  /\ emailService = FALSE
  /\ forgot = NoForgotRequests
  /\ InitTables

\* One client of one user that sends one message after another, waiting for
\* each response (chat.tsx: the input is disabled while a send is pending), in
\* a fault-free environment with all providers answering.
InitSerial ==
  /\ env = ProviderSet
  /\ health = Uniform("Paris.")
  /\ faults = FALSE
  /\ adminBudget = 0
  /\ sessions = {"u1"}
  /\ pc = [r \in Requests |-> "idle"]
  /\ client = [texts |-> TitleTexts, uploads |-> {<<>>, <<Photo>>}, pastes |-> {NoPaste},
               serial |-> TRUE]
  /\ cfg = NoConfigUpdates
  /\ adminConfig = <<>>
  /\ lst = NoListRequests
  /\ emailService = FALSE
  /\ forgot = NoForgotRequests
  /\ InitTables

\* One request with attachments, in an environment where database statements
\* and file system calls can fail and the process can die, the providers all
\* answering or all failing.
InitUpload ==
  /\ env = ProviderSet
  /\ health \in {Uniform("Paris."), Uniform("throw")}
  /\ faults = TRUE
  /\ adminBudget = 0
  /\ sessions = {"u1"}
  /\ pc = [r \in Requests |-> IF r = 1 THEN "idle" ELSE "unused"]
  /\ client = [texts |-> {"", Content40, TabbedText}, uploads |-> Uploads,
               pastes |-> {NoPaste}, serial |-> FALSE]
  /\ cfg = NoConfigUpdates
  /\ adminConfig = <<>>
  /\ lst = NoListRequests
  /\ emailService = FALSE
  /\ forgot = NoForgotRequests
  /\ InitTables

\* Admins saving configurations at the same time, no chat request, database
\* statements that can fail.
InitConfig ==
  /\ env = ProviderSet
  /\ health = Uniform("Paris.")
  /\ faults = TRUE
  /\ adminBudget = 0
  /\ sessions = {}
  /\ pc = [r \in Requests |-> "unused"]
  /\ client = [texts |-> {}, uploads |-> {}, pastes |-> {}, serial |-> FALSE]
  /\ cfg = [o \in ConfigUpdates |-> NewConfigUpdate("idle")]
  /\ adminConfig = <<>>
  /\ lst = NoListRequests
  /\ emailService = FALSE
  /\ forgot = NoForgotRequests
  /\ InitTables

\* One send on a server whose admin_config table holds the configuration an
\* admin saved earlier, in a fault-free environment, all keys configured, all
\* providers answering.
InitConfigured ==
  /\ env = ProviderSet
  /\ health = Uniform("Paris.")
  /\ faults = FALSE
  /\ adminBudget = 0
  /\ sessions = {"u1"}
  /\ pc = [r \in Requests |-> IF r = 1 THEN "idle" ELSE "unused"]
  /\ client = [texts |-> {Content40}, uploads |-> {<<>>}, pastes |-> {NoPaste},
               serial |-> FALSE]
  /\ cfg = NoConfigUpdates
  /\ adminConfig \in {InsertActive(<<>>, p) : p \in {"qwen", "openai"}}
  /\ lst = NoListRequests
  /\ emailService = FALSE
  /\ forgot = NoForgotRequests
  /\ InitTables

\* One request with pasted images, with and without an uploaded image, in a
\* fault-free environment, all keys configured, all providers answering.
InitPaste ==
  /\ env = ProviderSet
  /\ health = Uniform("Paris.")
  /\ faults = FALSE
  /\ adminBudget = 0
  /\ sessions = {"u1"}
  /\ pc = [r \in Requests |-> IF r = 1 THEN "idle" ELSE "unused"]
  /\ client = [texts |-> {"", Content40}, uploads |-> {<<>>, <<Photo>>}, pastes |-> Pastes,
               serial |-> FALSE]
  /\ cfg = NoConfigUpdates
  /\ adminConfig = <<>>
  /\ lst = NoListRequests
  /\ emailService = FALSE
  /\ forgot = NoForgotRequests
  /\ InitTables

\* One send and message-list requests of the same user, in an environment
\* where database statements can fail and the process can die, all keys
\* configured, all providers answering.
InitList ==
  /\ env = ProviderSet
  /\ health = Uniform("Paris.")
  /\ faults = TRUE
  /\ adminBudget = 0
  /\ sessions = {"u1"}
  /\ pc = [r \in Requests |-> IF r = 1 THEN "idle" ELSE "unused"]
  /\ client = [texts |-> {Content40}, uploads |-> {<<>>}, pastes |-> {NoPaste},
               serial |-> FALSE]
  /\ cfg = NoConfigUpdates
  /\ adminConfig = <<>>
  /\ lst = [l \in ListRequests |-> NewListRequest("idle")]
  /\ emailService = FALSE
  /\ forgot = NoForgotRequests
  /\ InitTables

\* Forgot-password requests only, with the SMTP settings complete or not, in
\* an environment where database statements can fail and the process can die.
InitForgot ==
  /\ env = ProviderSet
  /\ health = Uniform("Paris.")
  /\ faults = TRUE
  /\ adminBudget = 0
  /\ sessions = {}
  /\ pc = [r \in Requests |-> "unused"]
  /\ client = [texts |-> {}, uploads |-> {}, pastes |-> {}, serial |-> FALSE]
  /\ cfg = NoConfigUpdates
  /\ adminConfig = <<>>
  /\ lst = NoListRequests
  /\ emailService \in BOOLEAN
  /\ forgot = [f \in ForgotRequests |-> NewForgotRequest("idle")]
  /\ InitTables

Init ==
  \/ InitSingle \/ InitAdmin \/ InitConcurrent \/ InitSerial \/ InitUpload \/ InitConfig
  \/ InitConfigured \/ InitPaste \/ InitList \/ InitForgot

\* The ways an awaited database statement can settle: TRUE fulfilled, FALSE
\* rejected.
Settles == IF faults THEN BOOLEAN ELSE {TRUE}

InFlight(r) == pc[r] \notin {"unused", "idle", "done"}

\* The outer catch of the handler: console.error + res.status(500).
Fail500(r, rec) ==
  /\ req' = [req EXCEPT ![r] = [rec EXCEPT !.status = 500,
                                           !.errors = @ \cup {"processing message"}]]
  /\ pc' = [pc EXCEPT ![r] = "done"]

\* A storage call of the handler was rejected outside any inner try block.
DbFail500(r, call) == Fail500(r, [req[r] EXCEPT !.failed = @ \cup {call}])

\* The order of the handler's first awaits: ownership check, insert of the
\* user message (line 242), read of the history (line 250).
AfterStepSkippingSave(step) == "getMessages"

AfterStep(step) ==
  IF step = "getConversation" THEN "addUserMessage" ELSE "getMessages"

\* ------------------------------------------------------------------------
\* POST /api/conversations/:id/messages
\* ------------------------------------------------------------------------
\* A request with the session of user u arrives: loadUser (auth.ts 61-76),
\* isAuthenticated (auth.ts 47-52) and upload.array('files') run, then the
\* handler up to its first await.
Receive(r, u, c, content, upload, paste) ==
  /\ ~crashed
  /\ pc[r] = "idle"
  /\ u \in sessions
  /\ content \in client.texts
  /\ upload \in client.uploads
  /\ paste \in client.pastes
  /\ client.serial => \A r2 \in Requests : ~InFlight(r2)
  /\ \E loaded \in Settles :
       LET rec == [req[r] EXCEPT !.session = u, !.conversationId = c, !.content = content,
                                 !.upload = upload, !.paste = paste,
                                 !.imageData = BodyImageData(paste)]
           \* loadUser sets req.user; when getUser threw it logs, req.user stays
           \* unset and the session stays.
           seen == IF loaded
                   THEN [rec EXCEPT !.user = [id |-> u, tokenUsed |-> users[u].tokenUsed,
                                              tokenQuota |-> users[u].tokenQuota]]
                   ELSE [rec EXCEPT !.errors = @ \cup {"loading user"},
                                    !.failed = @ \cup {"getUser"}]
       IN IF loaded /\ ~users[u].isActive
          THEN \* session destroyed, isAuthenticated answers 401
               /\ req' = [req EXCEPT ![r] = [rec EXCEPT !.status = 401]]
               /\ pc' = [pc EXCEPT ![r] = "done"]
               /\ sessions' = sessions \ {u}
               /\ disk' = disk
          ELSE IF TooLarge(upload)
          THEN \* multer removes the files it stored and hands LIMIT_FILE_SIZE
               \* to Express, which answers 500; the handler never runs.
               /\ req' = [req EXCEPT ![r] = [seen EXCEPT !.status = 500,
                         !.errors = @ \cup {"MulterError: File too large"},
                         !.failed = @ \cup {"upload.array"}]]
               /\ pc' = [pc EXCEPT ![r] = "done"]
               /\ sessions' = sessions
               /\ disk' = disk
          ELSE IF ~loaded
          THEN \* the handler's req.user.id throws into the outer catch.
               /\ req' = [req EXCEPT ![r] = [seen EXCEPT !.status = 500,
                         !.files = StoredFiles(r, upload),
                         !.errors = @ \cup {"processing message"}]]
               /\ pc' = [pc EXCEPT ![r] = "done"]
               /\ sessions' = sessions
               /\ disk' = disk \cup Paths(StoredFiles(r, upload))
          ELSE /\ req' = [req EXCEPT ![r] = [seen EXCEPT !.files = StoredFiles(r, upload)]]
               /\ pc' = [pc EXCEPT ![r] = "getConversation"]
               /\ sessions' = sessions
               /\ disk' = disk \cup Paths(StoredFiles(r, upload))
  /\ UNCHANGED <<env, health, users, conversations, messages, adminBudget, faults, crashed, client, adminConfig, cfg, lst, emailService, forgot>>

\* The console.error lines and the rejected calls of the file loop when the
\* reads of the files settle as `reads` says.
ReadErrors(files, reads) ==
  {"processing image" : i \in {j \in 1..Len(files) : IsImage(files[j]) /\ ~reads[j]}}
    \cup {"processing document" : i \in {j \in 1..Len(files) : ~IsImage(files[j]) /\ ~reads[j]}}

ReadsFailed(files, reads) ==
  {"fs.read(" \o files[i].originalname \o ")" : i \in {j \in 1..Len(files) : ~reads[j]}}

\* await storage.getConversation(conversationId, userId); lines 176-247.
GetConversation(r) ==
  /\ ~crashed
  /\ pc[r] = "getConversation"
  /\ \E ok \in Settles :
       IF ~ok THEN DbFail500(r, "getConversation")
       ELSE IF ~HasConversation(req[r].conversationId, req[r].user.id)
       THEN /\ req' = [req EXCEPT ![r].status = 404]
            /\ pc' = [pc EXCEPT ![r] = "done"]
       ELSE \E reads \in [1..Len(req[r].files) -> Settles] :
            /\ req' = [req EXCEPT
                 ![r].title = conversations[req[r].conversationId].title,
                 ![r].processedImages = ProcessedImages(req[r].files, reads, 1)
                                          \o ClipboardImages(req[r].imageData, 1),
                 ![r].documentContent = DocumentContent(req[r].files, reads, 1),
                 ![r].errors = @ \cup ReadErrors(req[r].files, reads),
                 ![r].failed = @ \cup ReadsFailed(req[r].files, reads)]
            /\ pc' = [pc EXCEPT ![r] = AfterStep("getConversation")]
  /\ UNCHANGED <<env, health, users, conversations, messages, sessions, adminBudget, faults, crashed, client, disk, adminConfig, cfg, lst, emailService, forgot>>

\* const userMessage = await storage.addMessage({... role: 'user' ...})
AddUserMessage(r) ==
  /\ ~crashed
  /\ pc[r] = "addUserMessage"
  /\ \E ok \in Settles :
       IF ~ok THEN DbFail500(r, "addMessage(user)") /\ UNCHANGED messages
       ELSE /\ messages' = AddMessage(messages,
                 [conversationId |-> req[r].conversationId, role |-> "user",
                  content |-> req[r].content,
                  attachments |-> Attachments(req[r].files)])
            /\ req' = [req EXCEPT ![r].userMessage = Len(messages')]
            /\ pc' = [pc EXCEPT ![r] = AfterStep("addUserMessage")]
  /\ UNCHANGED <<env, health, users, conversations, sessions, adminBudget, faults, crashed, client, disk, adminConfig, cfg, lst, emailService, forgot>>

\* The chain has produced `res`: enter the next call, or leave the chain.
EnterStage(r, rec, res) ==
  IF res.next = "throw" THEN Fail500(r, rec)
  ELSE /\ req' = [req EXCEPT ![r] =
              [rec EXCEPT !.aiContent = res.aiContent, !.aiProvider = res.aiProvider,
                          !.invoked = IF res.next \in CallStages
                                      THEN Append(@, StageProvider(res.next)) ELSE @,
                          \* chatMessages is read by the provider calls only
                          !.chatMessages = IF res.next \in CallStages THEN @ ELSE <<>>,
                          !.call = IF res.next \in CallStages
                                   THEN CallRequest(res.next, rec.processedImages)
                                   ELSE NoCall]]
       /\ pc' = [pc EXCEPT ![r] = res.next]

\* const allMessages = await storage.getConversationMessages(conversationId);
\* then lines 252-331 up to the first provider call.
GetMessages(r) ==
  /\ ~crashed
  /\ pc[r] = "getMessages"
  /\ \E ok \in Settles :
       IF ~ok THEN DbFail500(r, "getConversationMessages")
       ELSE EnterStage(r,
              [req[r] EXCEPT !.chatMessages =
                 ChatMessages(messages, req[r].conversationId, 1, req[r].userMessage,
                              req[r].processedImages, req[r].documentContent)],
              ChainStart(env))
  /\ UNCHANGED <<env, health, users, conversations, messages, sessions, adminBudget, faults, crashed, client, disk, adminConfig, cfg, lst, emailService, forgot>>

\* A pending provider call settles as the provider's health says.
QwenReturns(r) ==
  /\ ~crashed
  /\ pc[r] = "qwen"
  /\ EnterStage(r, req[r],
       QwenSettled(env, health["qwen"], req[r].aiContent, req[r].aiProvider))
  /\ UNCHANGED <<env, health, users, conversations, messages, sessions, adminBudget, faults, crashed, client, disk, adminConfig, cfg, lst, emailService, forgot>>

DeepseekReturns(r) ==
  /\ ~crashed
  /\ pc[r] = "deepseek"
  /\ EnterStage(r, req[r],
       DeepseekSettled(env, health["deepseek"], req[r].aiContent, req[r].aiProvider))
  /\ UNCHANGED <<env, health, users, conversations, messages, sessions, adminBudget, faults, crashed, client, disk, adminConfig, cfg, lst, emailService, forgot>>

OpenaiReturns(r) ==
  /\ ~crashed
  /\ pc[r] \in {"openaiAfterDeepseek", "openaiDirect"}
  /\ EnterStage(r, req[r],
       OpenaiSettled(pc[r], health["openai"], req[r].aiContent, req[r].aiProvider))
  /\ UNCHANGED <<env, health, users, conversations, messages, sessions, adminBudget, faults, crashed, client, disk, adminConfig, cfg, lst, emailService, forgot>>

\* const aiMessage = await storage.addMessage({... role: 'assistant' ...});
\* then lines 419-425 up to the token update.
AddAiMessage(r) ==
  /\ ~crashed
  /\ pc[r] = "addAiMessage"
  /\ \E ok \in Settles :
       IF ~ok THEN DbFail500(r, "addMessage(assistant)") /\ UNCHANGED messages
       ELSE /\ messages' = AddMessage(messages,
                 [conversationId |-> req[r].conversationId, role |-> "assistant",
                  content |-> req[r].aiContent, attachments |-> <<>>])
            /\ req' = [req EXCEPT ![r].aiMessage = Len(messages'),
                                  ![r].estimatedTokens =
                                     EstimatedTokens(req[r].content, req[r].aiContent)]
            /\ pc' = [pc EXCEPT ![r] = "updateTokenUsage"]
  /\ UNCHANGED <<env, health, users, conversations, sessions, adminBudget, faults, crashed, client, disk, adminConfig, cfg, lst, emailService, forgot>>

\* The users table after request r's token update:
\* await storage.updateUserTokenUsage(user.id, estimatedTokens)
TokenUsageWrittenFromSnapshot(r) ==
  [users EXCEPT ![req[r].user.id].tokenUsed = req[r].user.tokenUsed + req[r].estimatedTokens]

TokenUsageApplied(r) ==
  UpdateUserTokenUsage(users, req[r].user.id, req[r].estimatedTokens)

\* Where the handler goes when the token update has settled: the catch at
\* 427-429 only logs; then the title check of line 432.
AfterTokenUsageRethrow(ok, title) ==
  IF ~ok THEN "throw"
  ELSE IF title \in SentinelTitles THEN "updateTitle" ELSE "touchConversation"

AfterTokenUsageAlwaysSeeds(ok, title) == "updateTitle"

AfterTokenUsage(ok, title) ==
  IF title \in SentinelTitles THEN "updateTitle" ELSE "touchConversation"

UpdateTokenUsage(r) ==
  /\ ~crashed
  /\ pc[r] = "updateTokenUsage"
  /\ \E ok \in Settles :
       LET next == AfterTokenUsage(ok, req[r].title)
           rec == IF ok THEN req[r]
                  ELSE [req[r] EXCEPT !.errors = @ \cup {"updating token usage"},
                                      !.failed = @ \cup {"updateUserTokenUsage"}]
       IN /\ users' = IF ok THEN TokenUsageApplied(r) ELSE users
          /\ IF next = "throw" THEN Fail500(r, rec)
             ELSE /\ req' = [req EXCEPT ![r] = rec]
                  /\ pc' = [pc EXCEPT ![r] = next]
  /\ UNCHANGED <<env, health, conversations, messages, sessions, adminBudget, faults, crashed, client, disk, adminConfig, cfg, lst, emailService, forgot>>

\* await storage.updateConversation(conversationId, { title: newTitle }),
\* inside its own try/catch (lines 432-441).
UpdateTitle(r) ==
  /\ ~crashed
  /\ pc[r] = "updateTitle"
  /\ \E ok \in Settles :
       IF ok
       THEN /\ conversations' = UpdateConversationTitle(conversations,
                                  req[r].conversationId, NewTitle(req[r].content))
            /\ req' = req
       ELSE /\ conversations' = conversations
            /\ req' = [req EXCEPT ![r].errors = @ \cup {"updating conversation title"},
                                  ![r].failed = @ \cup {"updateConversation(title)"}]
  /\ pc' = [pc EXCEPT ![r] = "touchConversation"]
  /\ UNCHANGED <<env, health, users, messages, sessions, adminBudget, faults, crashed, client, disk, adminConfig, cfg, lst, emailService, forgot>>

\* The unlinkSync calls of the clean-up that throw.
Stuck(files) == IF faults THEN SUBSET Paths(files) ELSE {{}}

UnlinksFailed(files, stuck) ==
  {"fs.unlink(" \o files[i].originalname \o ")" :
     i \in {j \in 1..Len(files) : files[j].path \in stuck}}

\* await storage.updateConversation(conversationId, {}); file clean-up;
\* res.json({ userMessage, aiMessage })
TouchConversation(r) ==
  /\ ~crashed
  /\ pc[r] = "touchConversation"
  /\ \E ok \in Settles :
       IF ~ok THEN /\ DbFail500(r, "updateConversation")
                   /\ UNCHANGED <<conversations, disk, emailService, forgot>>
       ELSE \E stuck \in Stuck(req[r].files) :
            /\ conversations' = UpdateConversationTouch(conversations, req[r].conversationId)
            /\ disk' = CleanUp(disk, req[r].files, stuck)
            /\ req' = [req EXCEPT
                 ![r].status = 200,
                 ![r].errors = @ \cup (IF stuck = {} THEN {} ELSE {"cleaning up file"}),
                 ![r].failed = @ \cup UnlinksFailed(req[r].files, stuck)]
            /\ pc' = [pc EXCEPT ![r] = "done"]
  /\ UNCHANGED <<env, health, users, messages, sessions, adminBudget, faults, crashed, client, adminConfig, cfg, lst, emailService, forgot>>

\* The server process dies while requests are in flight; what the database
\* holds stays, the requests never continue.
Crash ==
  /\ ~crashed
  /\ faults
  /\ \/ \E r \in Requests : InFlight(r)
     \/ \E o \in ConfigUpdates : cfg[o].pc \in {"deactivate", "insert"}
     \/ \E l \in ListRequests : lst[l].pc \in {"getConversation", "getMessages"}
     \/ \E f \in ForgotRequests : forgot[f].pc \in {"getUserByEmail", "updateUser", "sendMail"}
  /\ crashed' = TRUE
  /\ UNCHANGED <<env, health, users, conversations, messages, pc, req, sessions, adminBudget, faults, client, disk,
                 adminConfig, cfg, lst, emailService, forgot>>

\* ------------------------------------------------------------------------
\* Admin routes (routes.ts 531-587)
\* ------------------------------------------------------------------------
\* PATCH /api/admin/users/:id/status
AdminToggleStatus(u, isActive) ==
  /\ ~crashed
  /\ adminBudget > 0
  /\ users' = ToggleUserStatus(users, u, isActive)
  /\ adminBudget' = adminBudget - 1
  /\ UNCHANGED <<env, health, conversations, messages, pc, req, sessions, faults, crashed, client, disk, adminConfig, cfg, lst, emailService, forgot>>

\* PATCH /api/admin/users/:id/quota
AdminUpdateQuota(u, quota) ==
  /\ ~crashed
  /\ adminBudget > 0
  /\ users' = UpdateUserQuota(users, u, quota)
  /\ adminBudget' = adminBudget - 1
  /\ UNCHANGED <<env, health, conversations, messages, pc, req, sessions, faults, crashed, client, disk, adminConfig, cfg, lst, emailService, forgot>>

\* POST /api/admin/config (routes.ts 491-505) with storage.updateAdminConfig
\* (storage.ts 189-199): two awaited statements, no transaction.
\* Bodies: the provider named; "" stands for a body the schema rejects.
ConfigBodies == {"openai", "qwen", ""}

\* The request arrives: insertAdminConfigSchema.parse, then the handler up to
\* the first statement of updateAdminConfig.
ConfigReceive(o, body) ==
  /\ ~crashed
  /\ cfg[o].pc = "idle"
  /\ cfg' = [cfg EXCEPT ![o] =
               IF body = "" THEN [pc |-> "done", body |-> body, status |-> 400]
               ELSE [pc |-> "deactivate", body |-> body, status |-> 0]]
  /\ UNCHANGED <<env, health, users, conversations, messages, pc, req, sessions,
                 adminBudget, faults, crashed, client, disk, adminConfig, lst, emailService, forgot>>

ConfigDeactivate(o) ==
  /\ ~crashed
  /\ cfg[o].pc = "deactivate"
  /\ \E ok \in Settles :
       IF ok
       THEN /\ adminConfig' = DeactivateAll(adminConfig)
            /\ cfg' = [cfg EXCEPT ![o].pc = "insert"]
       ELSE /\ adminConfig' = adminConfig
            /\ cfg' = [cfg EXCEPT ![o].pc = "done", ![o].status = 400]
  /\ UNCHANGED <<env, health, users, conversations, messages, pc, req, sessions,
                 adminBudget, faults, crashed, client, disk, lst, emailService, forgot>>

ConfigInsert(o) ==
  /\ ~crashed
  /\ cfg[o].pc = "insert"
  /\ \E ok \in Settles :
       IF ok
       THEN /\ adminConfig' = InsertActive(adminConfig, cfg[o].body)
            /\ cfg' = [cfg EXCEPT ![o].pc = "done", ![o].status = 200]
       ELSE /\ adminConfig' = adminConfig
            /\ cfg' = [cfg EXCEPT ![o].pc = "done", ![o].status = 400]
  /\ UNCHANGED <<env, health, users, conversations, messages, pc, req, sessions,
                 adminBudget, faults, crashed, client, disk, lst, emailService, forgot>>

\* ------------------------------------------------------------------------
\* GET /api/conversations/:id/messages (routes.ts 151-168)
\* ------------------------------------------------------------------------
\* The catch of the handler: console.error + res.status(500).
ListFail500(l, call) ==
  lst' = [lst EXCEPT ![l].pc = "done", ![l].status = 500,
                     ![l].errors = @ \cup {"fetching messages"},
                     ![l].failed = @ \cup call]

\* A request with the session of user u arrives: loadUser and isAuthenticated
\* run, then the handler up to its first await.
ListReceive(l, u, c) ==
  /\ ~crashed
  /\ lst[l].pc = "idle"
  /\ u \in sessions
  /\ \E loaded \in Settles :
       IF loaded /\ ~users[u].isActive
       THEN /\ lst' = [lst EXCEPT ![l].pc = "done", ![l].conversationId = c,
                                  ![l].status = 401]
            /\ sessions' = sessions \ {u}
       ELSE IF ~loaded
       THEN \* req.user is unset: req.user.id throws into the catch.
            /\ lst' = [lst EXCEPT ![l].pc = "done", ![l].conversationId = c,
                                  ![l].status = 500,
                                  ![l].errors = {"loading user", "fetching messages"},
                                  ![l].failed = {"getUser"}]
            /\ sessions' = sessions
       ELSE /\ lst' = [lst EXCEPT ![l].pc = "getConversation", ![l].user = u,
                                  ![l].conversationId = c]
            /\ sessions' = sessions
  /\ UNCHANGED <<env, health, users, conversations, messages, pc, req, adminBudget, faults,
                 crashed, client, disk, adminConfig, cfg, emailService, forgot>>

\* const conversation = await storage.getConversation(conversationId, userId)
ListGetConversation(l) ==
  /\ ~crashed
  /\ lst[l].pc = "getConversation"
  /\ \E ok \in Settles :
       IF ~ok THEN ListFail500(l, {"getConversation"})
       ELSE IF ~HasConversation(lst[l].conversationId, lst[l].user)
       THEN lst' = [lst EXCEPT ![l].pc = "done", ![l].status = 404]
       ELSE lst' = [lst EXCEPT ![l].pc = "getMessages"]
  /\ UNCHANGED <<env, health, users, conversations, messages, pc, req, sessions, adminBudget,
                 faults, crashed, client, disk, adminConfig, cfg, emailService, forgot>>

\* const messages = await storage.getConversationMessages(conversationId);
\* res.json(messages)
ListGetMessages(l) ==
  /\ ~crashed
  /\ lst[l].pc = "getMessages"
  /\ \E ok \in Settles :
       IF ~ok THEN ListFail500(l, {"getConversationMessages"})
       ELSE lst' = [lst EXCEPT ![l].pc = "done", ![l].status = 200]
  /\ UNCHANGED <<env, health, users, conversations, messages, pc, req, sessions, adminBudget,
                 faults, crashed, client, disk, adminConfig, cfg, emailService, forgot>>

\* ------------------------------------------------------------------------
\* POST /api/auth/forgot-password (auth.ts 220-256)
\* ------------------------------------------------------------------------
\* resetPasswordSchema: /^[^\s@]+@[^\s@]+\.[^\s@]+$/.test(email) ||
\* email.endsWith('@localhost'), on a text of at least one character.
IsEmail(text) ==
  \/ \E i \in 2..(Len(text) - 3) :
       /\ SubSeq(text, i, i) = "@"
       /\ \A j \in 1..Len(text) : j # i => SubSeq(text, j, j) \notin {"@", " ", "\t", "\n"}
       /\ \E j \in (i + 2)..(Len(text) - 1) : SubSeq(text, j, j) = "."
  \/ /\ Len(text) >= Len("@localhost")
     /\ SubSeq(text, Len(text) - Len("@localhost") + 1, Len(text)) = "@localhost"

\* storage.getUserByEmail: the id of the account with that email, "" for none.
GetUserByEmail(us, email) ==
  IF \E u \in DOMAIN us : us[u].email = email
  THEN CHOOSE u \in DOMAIN us : us[u].email = email
  ELSE ""

\* storage.updateUser(user.id, { resetToken, resetTokenExpiry })
UpdateUserResetToken(us, userId, resetToken) == [us EXCEPT ![userId].resetToken = resetToken]

ResetLinkSent == "If an account with that email exists, a password reset link has been sent."
ResetUnavailable == "Password reset via email is not available. Please contact administrator."
ResetFailed == "Password reset request failed"

ForgotRespond(f, status, message) ==
  forgot' = [forgot EXCEPT ![f].pc = "done", ![f].status = status, ![f].message = message]

\* The catch of the handler: console.error + res.status(500).
ForgotFail500(f, call) ==
  forgot' = [forgot EXCEPT ![f].pc = "done", ![f].status = 500, ![f].message = ResetFailed,
                           ![f].failed = @ \cup {call}]

\* The request arrives: resetPasswordSchema.parse(req.body), then the handler
\* up to its first await.
ForgotReceive(f, email) ==
  /\ ~crashed
  /\ forgot[f].pc = "idle"
  /\ IF IsEmail(email)
     THEN forgot' = [forgot EXCEPT ![f].pc = "getUserByEmail", ![f].email = email]
     ELSE forgot' = [forgot EXCEPT ![f].pc = "done", ![f].email = email, ![f].status = 500,
                                   ![f].message = ResetFailed,
                                   ![f].failed = @ \cup {"resetPasswordSchema.parse"}]
  /\ UNCHANGED <<env, health, users, conversations, messages, pc, req, sessions, adminBudget,
                 faults, crashed, client, disk, adminConfig, cfg, lst, emailService>>

\* const user = await storage.getUserByEmail(validatedData.email); lines 225-233.
ForgotGetUserByEmail(f) ==
  /\ ~crashed
  /\ forgot[f].pc = "getUserByEmail"
  /\ \E ok \in Settles :
       LET user == GetUserByEmail(users, forgot[f].email)
       IN IF ~ok THEN ForgotFail500(f, "getUserByEmail")
          ELSE IF user = "" THEN ForgotRespond(f, 200, ResetLinkSent)
          ELSE IF ~emailService THEN ForgotRespond(f, 400, ResetUnavailable)
          ELSE forgot' = [forgot EXCEPT ![f].pc = "updateUser", ![f].user = user]
  /\ UNCHANGED <<env, health, users, conversations, messages, pc, req, sessions, adminBudget,
                 faults, crashed, client, disk, adminConfig, cfg, lst, emailService>>

\* await storage.updateUser(user.id, { resetToken, resetTokenExpiry }); lines 235-242.
ForgotUpdateUser(f, token) ==
  /\ ~crashed
  /\ forgot[f].pc = "updateUser"
  /\ \E ok \in Settles :
       IF ~ok
       THEN /\ ForgotFail500(f, "updateUser")
            /\ users' = users
       ELSE /\ forgot' = [forgot EXCEPT ![f].pc = "sendMail", ![f].resetToken = token]
            /\ users' = UpdateUserResetToken(users, forgot[f].user, token)
  /\ UNCHANGED <<env, health, conversations, messages, pc, req, sessions, adminBudget,
                 faults, crashed, client, disk, adminConfig, cfg, lst, emailService>>

\* await emailService.sendPasswordResetEmail(...): it catches the rejection of
\* sendMail and returns false; the handler ignores the result. Lines 244-251.
ForgotSendMail(f) ==
  /\ ~crashed
  /\ forgot[f].pc = "sendMail"
  /\ \E sent \in Settles :
       forgot' = [forgot EXCEPT ![f].pc = "done", ![f].status = 200,
                                ![f].message = ResetLinkSent,
                                ![f].failed = IF sent THEN @ ELSE @ \cup {"sendMail"}]
  /\ UNCHANGED <<env, health, users, conversations, messages, pc, req, sessions, adminBudget,
                 faults, crashed, client, disk, adminConfig, cfg, lst, emailService>>

Next ==
  \/ \E r \in Requests, u \in sessions, c \in ConvIds \cup {MissingConv},
          content \in client.texts, upload \in client.uploads, paste \in client.pastes :
       Receive(r, u, c, content, upload, paste)
  \/ \E r \in Requests : GetConversation(r)
  \/ \E r \in Requests : AddUserMessage(r)
  \/ \E r \in Requests : GetMessages(r)
  \/ \E r \in Requests : QwenReturns(r)
  \/ \E r \in Requests : DeepseekReturns(r)
  \/ \E r \in Requests : OpenaiReturns(r)
  \/ \E r \in Requests : AddAiMessage(r)
  \/ \E r \in Requests : UpdateTokenUsage(r)
  \/ \E r \in Requests : UpdateTitle(r)
  \/ \E r \in Requests : TouchConversation(r)
  \/ Crash
  \/ \E u \in Users, isActive \in BOOLEAN : AdminToggleStatus(u, isActive)
  \/ \E u \in Users, quota \in Quotas : AdminUpdateQuota(u, quota)
  \/ \E o \in ConfigUpdates, body \in ConfigBodies : ConfigReceive(o, body)
  \/ \E o \in ConfigUpdates : ConfigDeactivate(o)
  \/ \E o \in ConfigUpdates : ConfigInsert(o)
  \/ \E l \in ListRequests, u \in sessions, c \in ConvIds \cup {MissingConv} :
       ListReceive(l, u, c)
  \/ \E l \in ListRequests : ListGetConversation(l)
  \/ \E l \in ListRequests : ListGetMessages(l)
  \/ \E f \in ForgotRequests, email \in SubmittedEmails : ForgotReceive(f, email)
  \/ \E f \in ForgotRequests : ForgotGetUserByEmail(f)
  \/ \E f \in ForgotRequests, token \in ResetTokens : ForgotUpdateUser(f, token)
  \/ \E f \in ForgotRequests : ForgotSendMail(f)

Spec == Init /\ [][Next]_vars

TypeOK ==
  /\ env \subseteq ProviderSet
  /\ \A r \in Requests : req[r].status \in {0, 200, 401, 404, 500}
  /\ emailService \in BOOLEAN
  /\ \A f \in ForgotRequests : forgot[f].status \in {0, 200, 400, 500}

\* ------------------------------------------------------------------------
\* Properties
\* ------------------------------------------------------------------------
Rank(p) == CHOOSE i \in 1..Len(ProviderOrder) : ProviderOrder[i] = p

\* The request's provider chain is over (the assistant insert is pending or
\* later), on an owned conversation.
ChainConcluded(r) ==
  \/ pc[r] \in {"addAiMessage", "updateTokenUsage", "updateTitle", "touchConversation"}
  \/ pc[r] = "done" /\ req[r].failed \cap {"getUser", "upload.array", "getConversation",
                                           "addMessage(user)",
                                           "getConversationMessages"} = {}
                    /\ req[r].status \in {200, 500}

\* The call of request r to its i-th invoked provider has settled.
Settled(r, i) == i < Len(req[r].invoked) \/ pc[r] \notin CallStages

ConfiguredAfter(p) == {q \in env : Rank(q) > Rank(p)}

NextConfigured(p) ==
  CHOOSE q \in ConfiguredAfter(p) : \A q2 \in ConfiguredAfter(p) : Rank(q) <= Rank(q2)

AssistantRows == {i \in 1..Len(messages) : messages[i].role = "assistant"}

UserRows == {i \in 1..Len(messages) : messages[i].role = "user"}

\* Request r's token update has been applied by the store.
TokenApplied(r) ==
  /\ req[r].aiMessage # 0
  /\ pc[r] \in {"updateTitle", "touchConversation", "done"}
  /\ "updateUserTokenUsage" \notin req[r].failed

RECURSIVE SumTokens(_)
SumTokens(rs) ==
  IF rs = {} THEN 0
  ELSE LET r == CHOOSE x \in rs : TRUE
       IN req[r].estimatedTokens + SumTokens(rs \ {r})

\* C1: the provider recorded in aiProvider is the first provider in priority
\* order (qwen, deepseek, openai) that is both configured and whose call
\* succeeds; unconfigured providers are skipped and the chain moves on.
CallSucceeds(p) == health[p] # "throw"

ConfiguredWorking == {p \in env : CallSucceeds(p)}

FirstConfiguredWorking ==
  IF ConfiguredWorking = {} THEN "none"
  ELSE CHOOSE p \in ConfiguredWorking : \A q \in ConfiguredWorking : Rank(p) <= Rank(q)

C1_FirstConfiguredWorkingServes ==
  \A r \in Requests : ChainConcluded(r) => req[r].aiProvider = FirstConfiguredWorking

\* C2: once a provider call has succeeded the chain is over: the provider
\* that succeeded is the last one invoked, no call is pending, and the
\* providers invoked are distinct and in priority order.
C2_ChainStopsAtSuccess ==
  \A r \in Requests :
    /\ \A i, j \in 1..Len(req[r].invoked) :
         i < j => Rank(req[r].invoked[i]) < Rank(req[r].invoked[j])
    /\ req[r].aiProvider \in ProviderSet =>
         /\ pc[r] \notin CallStages
         /\ req[r].invoked # <<>>
         /\ req[r].invoked[Len(req[r].invoked)] = req[r].aiProvider

C2_Witness ==
  \E r \in Requests :
    /\ pc[r] = "done" /\ req[r].status = 200
    /\ req[r].aiProvider = "deepseek"
    /\ "openai" \in env /\ CallSucceeds("openai")
    /\ req[r].invoked = <<"qwen", "deepseek">>

\* C3 as stated: a configured provider whose call fails, by throwing or by
\* returning a response without answer text, never ends the chain as the
\* recorded provider; the next configured provider is called, if there is one.
Advances(r, i) ==
  /\ req[r].aiProvider # req[r].invoked[i]
  /\ IF ConfiguredAfter(req[r].invoked[i]) = {}
     THEN i = Len(req[r].invoked)
     ELSE /\ i < Len(req[r].invoked)
          /\ req[r].invoked[i + 1] = NextConfigured(req[r].invoked[i])

C3_Original ==
  \A r \in Requests : \A i \in 1..Len(req[r].invoked) :
    (Settled(r, i) /\ health[req[r].invoked[i]] \in {"throw", ""}) => Advances(r, i)

\* C3 amended: a configured provider whose call throws never ends the chain
\* as the recorded provider and the next configured provider is called; a call
\* that resolves without answer text ends the chain with that provider
\* recorded and the default apology as content.
C3_ThrowAdvances ==
  \A r \in Requests : \A i \in 1..Len(req[r].invoked) :
    /\ (Settled(r, i) /\ health[req[r].invoked[i]] = "throw") => Advances(r, i)
    /\ (Settled(r, i) /\ health[req[r].invoked[i]] = "") =>
         /\ i = Len(req[r].invoked)
         /\ req[r].aiProvider = req[r].invoked[i]
         /\ req[r].aiContent = DefaultContent

C3_Witness ==
  \E r \in Requests :
    /\ pc[r] = "done" /\ req[r].status = 200
    /\ env = {"qwen", "openai"}
    /\ health["qwen"] = "throw" /\ health["openai"] = ""
    /\ req[r].invoked = <<"qwen", "openai">>
    /\ req[r].aiProvider = "openai"

\* C4: with no provider configured no provider is called and the assistant
\* content is the fallback string of that outcome alone: no request in an
\* environment with a configured provider ends with the same string.
NoneConfiguredContent == ChainStart({}).aiContent

C4_NoneConfiguredString ==
  \A r \in Requests : ChainConcluded(r) =>
    /\ env = {} => req[r].invoked = <<>> /\ req[r].aiContent = NoneConfiguredContent
    /\ req[r].aiContent = NoneConfiguredContent => env = {}

\* The rows request r's response carries are the rows of its two inserts.
PairPersisted(r) ==
  /\ req[r].userMessage \in UserRows
  /\ messages[req[r].userMessage] =
       [conversationId |-> req[r].conversationId, role |-> "user",
        content |-> req[r].content, attachments |-> Attachments(req[r].files)]
  /\ req[r].aiMessage \in AssistantRows
  /\ messages[req[r].aiMessage] =
       [conversationId |-> req[r].conversationId, role |-> "assistant",
        content |-> req[r].aiContent, attachments |-> <<>>]

\* Every assistant row is the row of exactly one request's assistant insert.
OneAssistantRowPerInsert ==
  /\ AssistantRows = {req[r].aiMessage : r \in {x \in Requests : req[x].aiMessage # 0}}
  /\ \A r1, r2 \in Requests :
       (r1 # r2 /\ req[r1].aiMessage # 0) => req[r1].aiMessage # req[r2].aiMessage

\* C5: a send by a loaded user on an owned conversation, none of whose storage
\* calls was rejected, ends with status 200 carrying the persisted user and
\* assistant rows, whatever the provider chain did, and exactly one assistant
\* row exists per request that inserted one.
C5_AlwaysAnswered ==
  /\ OneAssistantRowPerInsert
  /\ \A r \in Requests :
       ( /\ pc[r] = "done"
         /\ req[r].failed = {}
         /\ req[r].user.id # ""
         /\ HasConversation(req[r].conversationId, req[r].user.id) )
       => (req[r].status = 200 /\ PairPersisted(r))

C5_Witness ==
  \E r \in Requests :
    /\ pc[r] = "done" /\ req[r].failed = {} /\ req[r].status = 200
    /\ req[r].invoked = <<"qwen", "deepseek", "openai">>
    /\ req[r].aiProvider = "none"
    /\ messages[req[r].aiMessage].content = AllUnavailable

\* C6: a provider call is made only when the request's user row is in the
\* table, and while a call is pending (also in a process that died then) the
\* request has inserted no assistant row; the assistant row comes after the
\* user row.
C6_PersistAroundCalls ==
  /\ OneAssistantRowPerInsert
  /\ \A r \in Requests :
       /\ req[r].invoked # <<>> =>
            /\ req[r].userMessage \in UserRows
            /\ messages[req[r].userMessage] =
                 [conversationId |-> req[r].conversationId, role |-> "user",
                  content |-> req[r].content,
                  attachments |-> Attachments(req[r].files)]
       /\ pc[r] \in CallStages => req[r].aiMessage = 0
       /\ req[r].aiMessage # 0 =>
            /\ req[r].userMessage \in UserRows
            /\ req[r].userMessage < req[r].aiMessage

C6_Witness ==
  \E r \in Requests :
    /\ crashed
    /\ pc[r] = "deepseek"
    /\ req[r].invoked = <<"qwen", "deepseek">>
    /\ req[r].userMessage \in UserRows
    /\ AssistantRows = {}

\* C7: when a request's token update is applied, the user's tokenUsed grows by
\* the least integer that is at least (userLen + aiLen) / 4, userLen the length
\* of the submitted text and aiLen the length of the persisted assistant text.
C7_IncrementIsCeil ==
  [][\A r \in Requests :
       ( /\ pc[r] = "updateTokenUsage"
         /\ pc'[r] # "updateTokenUsage"
         /\ "updateUserTokenUsage" \notin req'[r].failed )
       => LET u == req[r].user.id
              total == Len(req[r].content) + Len(messages[req[r].aiMessage].content)
              delta == users'[u].tokenUsed - users[u].tokenUsed
          IN 4 * delta >= total /\ 4 * (delta - 1) < total]_vars

C7_Witness ==
  \E r \in Requests :
    /\ TokenApplied(r)
    /\ Len(req[r].content) = 40
    /\ Len(messages[req[r].aiMessage].content) = 200
    /\ users[req[r].user.id].tokenUsed = 60

\* C8: every user's tokenUsed is the sum of the increments of the requests of
\* that user whose token update has been applied, whatever the interleaving.
C8_NoLostUpdate ==
  \A u \in Users :
    users[u].tokenUsed = SumTokens({r \in Requests : req[r].user.id = u /\ TokenApplied(r)})

C8_Witness ==
  \E r1, r2 \in Requests :
    /\ r1 # r2
    /\ req[r1].user.id = req[r2].user.id
    /\ TokenApplied(r1) /\ TokenApplied(r2)
    /\ req[r1].user.tokenUsed = 0 /\ req[r2].user.tokenUsed = 0
    /\ req[r1].estimatedTokens = 60 /\ req[r2].estimatedTokens = 60
    /\ users[req[r1].user.id].tokenUsed = 120

\* C9: the token update is pending or attempted only with the assistant row
\* in the table, and a request whose only rejected storage call is the token
\* update ends with status 200, the failure logged, both rows intact.
C9_TokenFailureOnlyLogged ==
  \A r \in Requests :
    /\ (pc[r] = "updateTokenUsage" \/ "updateUserTokenUsage" \in req[r].failed)
         => PairPersisted(r)
    /\ (pc[r] = "done" /\ req[r].failed = {"updateUserTokenUsage"}) =>
         /\ req[r].status = 200
         /\ req[r].errors = {"updating token usage"}
         /\ PairPersisted(r)

C9_Witness ==
  \E r \in Requests :
    /\ pc[r] = "done"
    /\ req[r].failed = {"updateUserTokenUsage"}
    /\ req[r].status = 200
    /\ users[req[r].user.id].tokenUsed = 0

\* C10: no step of the server lowers any user's tokenUsed.
C10_TokenUsedMonotone ==
  [][\A u \in Users : users'[u].tokenUsed >= users[u].tokenUsed]_vars

C10_Witness ==
  \E u \in Users :
    /\ users[u].tokenUsed > 0
    /\ users[u].tokenQuota \in Quotas

\* C11: a send made by a user whose tokenUsed is at least tokenQuota is
\* rejected before any message is persisted and before any provider is called.
OverQuota(r) ==
  /\ req[r].user.id # ""
  /\ req[r].user.tokenUsed >= req[r].user.tokenQuota

C11_OverQuotaBlocked ==
  \A r \in Requests :
    OverQuota(r) => (req[r].userMessage = 0 /\ req[r].invoked = <<>>)

\* C12: a send by a user who is under quota when the request arrives ends
\* with the success response when no storage call is rejected, whatever its
\* cost, and its token update raises tokenUsed by the full estimated cost, also
\* past tokenQuota: the new value is never cut down to the quota.
C12_FullCostPastQuota ==
  [][\A r \in Requests :
       LET u == req[r].user.id
           underQuota == u # "" /\ req[r].user.tokenUsed < req[r].user.tokenQuota
       IN /\ ( /\ underQuota
               /\ pc[r] = "updateTokenUsage" /\ pc'[r] # "updateTokenUsage"
               /\ "updateUserTokenUsage" \notin req'[r].failed )
             => /\ users'[u].tokenUsed = users[u].tokenUsed + req[r].estimatedTokens
                /\ (users[u].tokenUsed + req[r].estimatedTokens > users[u].tokenQuota
                      => users'[u].tokenUsed > users'[u].tokenQuota)
          /\ ( /\ underQuota
               /\ pc[r] # "done" /\ pc'[r] = "done"
               /\ req'[r].failed = {}
               /\ HasConversation(req[r].conversationId, u) )
             => req'[r].status = 200]_vars

C12_Witness ==
  \E r \in Requests :
    /\ pc[r] = "done" /\ req[r].status = 200 /\ TokenApplied(r)
    /\ req[r].user.tokenUsed = 0 /\ req[r].user.tokenQuota = 50
    /\ req[r].estimatedTokens = 60
    /\ users[req[r].user.id].tokenQuota = 50
    /\ users[req[r].user.id].tokenUsed = 60

\* C13: when a send on a conversation whose stored title is a sentinel
\* persists a title, that title is the first six whitespace-separated words of
\* the message text (runs of spaces, tabs and newlines all separate words),
\* joined by single spaces, cut to 47 characters plus an ellipsis when longer
\* than 50, and no longer than 50 characters.
Whitespace == {" ", "\t", "\n"}

\* The maximal runs of non-whitespace characters of s, in order.
WhitespaceWords(s) ==
  LET isWord(i) == i \in 1..Len(s) /\ SubSeq(s, i, i) \notin Whitespace
      starts == {i \in 1..Len(s) : isWord(i) /\ ~isWord(i - 1)}
      start(k) == CHOOSE i \in starts : Cardinality({j \in starts : j < i}) = k - 1
      end(i) == CHOOSE e \in i..Len(s) : (\A j \in i..e : isWord(j)) /\ ~isWord(e + 1)
  IN [k \in 1..Cardinality(starts) |-> SubSeq(s, start(k), end(start(k)))]

SixWordTitle(content) ==
  LET ws == WhitespaceWords(content)
      words == Join(SubSeq(ws, 1, IF Len(ws) < 6 THEN Len(ws) ELSE 6))
  IN IF Len(words) > 50 THEN SubSeq(words, 1, 47) \o "..." ELSE words

C13_TitleIsSixWords ==
  [][\A r \in Requests :
       ( /\ pc[r] = "updateTitle" /\ pc'[r] # "updateTitle"
         /\ "updateConversation(title)" \notin req'[r].failed
         /\ req[r].title \in SentinelTitles )
       => LET title == conversations'[req[r].conversationId].title
          IN title = SixWordTitle(req[r].content) /\ Len(title) <= 50]_vars

\* C14 as stated: once a send on a conversation that had a sentinel title has
\* completed, no later send changes the title, whatever its text.  Stated for
\* clients that send one message after another, where every step taken after
\* a send has completed belongs to a later send.
FirstSendCompleted(c) ==
  \E r \in Requests :
    /\ pc[r] = "done" /\ req[r].status = 200
    /\ req[r].conversationId = c
    /\ req[r].title \in SentinelTitles

C14_Original ==
  [][client.serial =>
       \A c \in ConvIds :
         FirstSendCompleted(c) => conversations'[c].title = conversations[c].title]_vars

\* C14 amended: a title changes only by the title update of a send that read
\* a sentinel title at its ownership check; once the stored title is not a
\* sentinel and no send in flight holds a sentinel title it read earlier, no
\* step changes the title.  A first send whose derived title is itself a
\* sentinel leaves the seeding to the next send.
HoldsSentinel(c) ==
  \E r \in Requests :
    /\ InFlight(r)
    /\ req[r].conversationId = c
    /\ req[r].title \in SentinelTitles

C14_SeededTitleStays ==
  [][\A c \in ConvIds :
       /\ conversations'[c].title # conversations[c].title =>
            \E r \in Requests :
              /\ pc[r] = "updateTitle" /\ pc'[r] # "updateTitle"
              /\ req[r].conversationId = c
              /\ req[r].title \in SentinelTitles
       /\ (conversations[c].title \notin SentinelTitles /\ ~HoldsSentinel(c)) =>
            conversations'[c].title = conversations[c].title]_vars

C14_Witness ==
  \E r1, r2 \in Requests :
    /\ r1 # r2
    /\ pc[r1] = "done" /\ req[r1].status = 200
    /\ pc[r2] = "done" /\ req[r2].status = 200
    /\ req[r1].conversationId = req[r2].conversationId
    /\ req[r1].title \in SentinelTitles
    /\ req[r1].content = LongText
    /\ req[r2].title = SubSeq(LongText, 1, 47) \o "..."
    /\ req[r2].content = SpacedText
    /\ conversations[req[r2].conversationId].title = req[r2].title

\* The images request r supplied: its stored image files that were read, in
\* upload order.
WasRead(r, file) == ("fs.read(" \o file.originalname \o ")") \notin req[r].failed

SuppliedImages(r) == SelectSeq(req[r].files, LAMBDA f : IsImage(f) /\ WasRead(r, f))

\* The position, in request r's payload, of the turn of the user row it inserted.
CurrentTurn(r) ==
  Cardinality({i \in 1..req[r].userMessage :
                 messages[i].conversationId = req[r].conversationId})

\* C15: in the payload of a request that supplied at least one image file
\* (and no pasted image), the turn of the user row the request inserted is a
\* list of segments: first the text segment, then one image segment per
\* supplied image in upload order; every other turn is a plain string.
C15_ImagesInCurrentTurnOnly ==
  \A r \in Requests :
    (req[r].chatMessages # <<>> /\ SuppliedImages(r) # <<>> /\ req[r].paste = NoPaste) =>
      LET payload == req[r].chatMessages
          images == SuppliedImages(r)
          k == CurrentTurn(r)
      IN /\ k \in 1..Len(payload)
         /\ \A j \in 1..Len(payload) : j # k => ~payload[j].isArray /\ payload[j].parts = <<>>
         /\ payload[k].role = "user"
         /\ payload[k].isArray
         /\ Len(payload[k].parts) = 1 + Len(images)
         /\ payload[k].parts[1].type = "text"
         /\ \A i \in 1..Len(images) :
              payload[k].parts[1 + i] =
                [type |-> "image_url",
                 url |-> "data:" \o images[i].mimetype \o ";base64," \o images[i].base64]

C15_Witness ==
  \E r1, r2 \in Requests :
    /\ pc[r1] = "done" /\ req[r1].status = 200 /\ Len(req[r1].files) = 1
    /\ pc[r2] = "qwen"
    /\ req[r2].conversationId = req[r1].conversationId
    /\ Len(SuppliedImages(r2)) = 1
    /\ Len(req[r2].chatMessages) = 3
    /\ req[r2].chatMessages[1] =
         TextTurn("user", req[r1].content \o " [Attached file: photo.png (image/png)]")
    /\ req[r2].chatMessages[3].isArray

\* C16: the server stores a file of the request exactly when its media type
\* is JPEG, PNG, GIF, WebP, PDF, word-processor document, spreadsheet or plain
\* text and its size is at most 10 MiB; a stored file of an image type (WebP
\* included) is processed as an image, every other stored file as a document.
ListedTypes ==
  {"image/jpeg", "image/png", "image/gif", "image/webp", "application/pdf", Docx, Xlsx,
   "text/plain"}

ListedImageTypes == {"image/jpeg", "image/png", "image/gif", "image/webp"}

ShouldAccept(file) == file.mimetype \in ListedTypes /\ file.size <= 10 * 1024 * 1024

Names(files) == [i \in 1..Len(files) |-> files[i].originalname]

C16_AcceptsListedTypes ==
  \A r \in Requests :
    (pc[r] = "addUserMessage" /\ "upload.array" \notin req[r].failed
       /\ req[r].paste = NoPaste) =>
      /\ Names(req[r].files) = Names(SelectSeq(req[r].upload, ShouldAccept))
      /\ [i \in 1..Len(req[r].processedImages) |-> req[r].processedImages[i].filename] =
           Names(SelectSeq(req[r].files,
                   LAMBDA f : f.mimetype \in ListedImageTypes /\ WasRead(r, f)))

\* C17: a request that carries a rejected attachment (a type outside the
\* server's list, or a size above the limit) is not failed because of it: with
\* no storage or file system call rejected it ends with the success response,
\* its text persisted and its remaining files stored and processed.
IsRejected(file) == file.mimetype \notin AllowedTypes \/ file.size > 10 * 1024 * 1024

Remaining(upload) == SelectSeq(upload, LAMBDA f : ~IsRejected(f))

C17_RejectedDroppedSilently ==
  \A r \in Requests :
    ( /\ pc[r] = "done"
      /\ req[r].user.id # ""
      /\ HasConversation(req[r].conversationId, req[r].user.id)
      /\ \E i \in 1..Len(req[r].upload) : IsRejected(req[r].upload[i])
      /\ req[r].failed \subseteq {"upload.array"} )
    => /\ req[r].status = 200
       /\ Names(req[r].files) = Names(Remaining(req[r].upload))
       /\ PairPersisted(r)

\* Request r's handler has run its file loop.
FilesProcessed(r) ==
  \/ pc[r] \in {"addUserMessage", "getMessages", "addAiMessage", "updateTokenUsage",
                "updateTitle", "touchConversation"} \cup CallStages
  \/ pc[r] = "done" /\ req[r].status = 200

\* What the assembled document text holds for one document of request r: its
\* extracted text under its name, or the error marker when extraction failed.
ErrorMarker == "[Error processing file: Error: extraction failed]"

ExpectedSlot(r, file) ==
  LET text == IF WasRead(r, file) THEN file.text ELSE ErrorMarker
  IN IF IsBlank(text) THEN ""
     ELSE "\n\n--- Content from " \o file.originalname \o " ---\n" \o text \o "\n"

RECURSIVE ExpectedDocumentText(_, _)
ExpectedDocumentText(r, files) ==
  IF files = <<>> THEN ""
  ELSE (IF IsImage(Head(files)) THEN "" ELSE ExpectedSlot(r, Head(files)))
         \o ExpectedDocumentText(r, Tail(files))

ExtractionFailures(r) ==
  {"fs.read(" \o req[r].files[i].originalname \o ")" :
     i \in {j \in 1..Len(req[r].files) : ~IsImage(req[r].files[j])}}

\* C18: the assembled document text holds, in upload order, one slot per
\* document, with the error marker in the slot of each document whose
\* extraction failed; and a send whose only failures are extraction failures
\* ends with the success response, both rows persisted, the chain having run.
C18_ExtractionFailureInline ==
  \A r \in Requests :
    /\ FilesProcessed(r) =>
         req[r].documentContent = ExpectedDocumentText(r, req[r].files)
    /\ ( /\ pc[r] = "done"
         /\ req[r].failed # {}
         /\ req[r].failed \subseteq ExtractionFailures(r) )
       => /\ req[r].status = 200
          /\ PairPersisted(r)
          /\ "qwen" \in env => req[r].invoked # <<>>

C18_Witness ==
  \E r \in Requests :
    /\ pc[r] = "done" /\ req[r].status = 200
    /\ Names(req[r].files) = <<"report.pdf", "empty.xlsx", "notes.txt">>
    /\ req[r].failed = {"fs.read(report.pdf)"}
    /\ req[r].documentContent =
         "\n\n--- Content from report.pdf ---\n" \o ErrorMarker \o "\n"
           \o "\n\n--- Content from notes.txt ---\nMeeting at noon.\n"
    /\ req[r].aiMessage \in AssistantRows
    /\ req[r].invoked # <<>>

\* The files of request r whose unlinkSync threw.
UnlinkFailures(r) ==
  {"fs.unlink(" \o req[r].files[i].originalname \o ")" : i \in 1..Len(req[r].files)}

StuckPaths(r) ==
  {req[r].files[i].path :
     i \in {j \in 1..Len(req[r].files) :
              ("fs.unlink(" \o req[r].files[j].originalname \o ")") \in req[r].failed}}

\* C19: the stored files of a request stay on disk while its response is
\* being computed; when the request has ended with its response, whether a
\* provider answered or all failed, every stored file is gone from disk except
\* those whose deletion failed; a failed deletion is logged and a request
\* whose only failures are failed deletions still ends with status 200.
C19_FilesDeletedAfterResponse ==
  \A r \in Requests :
    /\ InFlight(r) => Paths(req[r].files) \subseteq disk
    /\ (pc[r] = "done" /\ req[r].status = 200) =>
         /\ disk \cap Paths(req[r].files) = StuckPaths(r)
         /\ StuckPaths(r) # {} => "cleaning up file" \in req[r].errors
    /\ ( /\ pc[r] = "done"
         /\ req[r].user.id # ""
         /\ HasConversation(req[r].conversationId, req[r].user.id)
         /\ req[r].failed \subseteq UnlinkFailures(r) )
       => req[r].status = 200

C19_Witness ==
  \E r \in Requests :
    /\ pc[r] = "done" /\ req[r].status = 200
    /\ Names(req[r].files) = <<"notes.txt", "photo.png", "scan.jpg">>
    /\ req[r].aiProvider = "none"
    /\ req[r].invoked = <<"qwen", "deepseek", "openai">>
    /\ req[r].failed = {"fs.unlink(photo.png)"}
    /\ disk = {req[r].files[2].path}

\* C20: at most one row of admin_config is active, in every reachable state,
\* whatever the interleaving of configuration updates.
ActiveConfigs == {i \in 1..Len(adminConfig) : adminConfig[i].isActive}

C20_AtMostOneActive == Cardinality(ActiveConfigs) <= 1

\* C21: on a server whose active configuration, saved by an admin and not
\* changed since, names a provider, every send that ends with the success
\* response, in an environment where every provider is configured and
\* answers, is served by the provider the active configuration names.
ActiveProviders == {adminConfig[i].apiProvider : i \in ActiveConfigs}

ConfigUnchanged == \A o \in ConfigUpdates : cfg[o].pc = "unused"

C21_ActiveConfigSelectsProvider ==
  \A r \in Requests :
    ( /\ pc[r] = "done" /\ req[r].status = 200
      /\ ConfiguredWorking = ProviderSet
      /\ ConfigUnchanged
      /\ ActiveConfigs # {} )
    => req[r].aiProvider \in ActiveProviders

\* C22: the token update of a send in which no provider produced an answer
\* (every configured provider failed, or none is configured) leaves every
\* user's tokenUsed unchanged.
C22_NoAnswerNoCharge ==
  [][\A r \in Requests :
       ( /\ pc[r] = "updateTokenUsage" /\ pc'[r] # "updateTokenUsage"
         /\ req[r].aiProvider \notin ProviderSet )
       => \A u \in Users : users'[u].tokenUsed = users[u].tokenUsed]_vars

\* The payload holds an image segment in some turn.
HasImageSegment(payload) ==
  \E j \in 1..Len(payload) :
    /\ payload[j].isArray
    /\ \E k \in 1..Len(payload[j].parts) : payload[j].parts[k].type = "image_url"

\* C23: the system instruction of every pending provider call is the
\* vision-oriented one when the request has at least one image and the
\* text-only one when it has none, whichever provider is called.
C23_InstructionFollowsImages ==
  \A r \in Requests :
    pc[r] \in CallStages =>
      req[r].call.system =
        (IF req[r].processedImages # <<>> THEN VisionInstruction ELSE TextInstruction)

\* C24: the model of a pending qwen call is the vision variant exactly when
\* the payload sent with it holds an image segment in some turn, and the
\* text-only variant otherwise.
C24_QwenVariantFollowsPayload ==
  \A r \in Requests :
    pc[r] = "qwen" =>
      /\ req[r].call.model \in {"qwen-vl-plus", "qwen-plus"}
      /\ req[r].call.model = "qwen-vl-plus" <=> HasImageSegment(req[r].chatMessages)

C24_Witness ==
  \E r \in Requests :
    /\ pc[r] = "qwen"
    /\ req[r].call.model = "qwen-vl-plus"
    /\ Len(req[r].chatMessages) = 3
    /\ ~req[r].chatMessages[1].isArray
    /\ req[r].chatMessages[3].isArray
    /\ req[r].chatMessages[3].parts[2].type = "image_url"

\* The base64 text of a pasted entry without its data-URL prefix (everything
\* up to the first comma of a text that starts with "data:").
RECURSIVE AfterFirstComma(_, _)
AfterFirstComma(s, i) ==
  IF i > Len(s) THEN s
  ELSE IF SubSeq(s, i, i) = "," THEN SubSeq(s, i + 1, Len(s))
  ELSE AfterFirstComma(s, i + 1)

BareBase64(s) ==
  IF Len(s) >= 5 /\ SubSeq(s, 1, 5) = "data:" THEN AfterFirstComma(s, 1) ELSE s

\* The processed images the entries of a clipboard field stand for.
RECURSIVE ExpectedPasted(_)
ExpectedPasted(entries) ==
  IF entries = <<>> THEN <<>>
  ELSE (IF Head(entries).base64 # "" /\ Head(entries).mimeType # ""
        THEN <<[base64 |-> BareBase64(Head(entries).base64),
                mimeType |-> Head(entries).mimeType]>>
        ELSE <<>>)
         \o ExpectedPasted(Tail(entries))

\* C25: when the imageData field of a multipart request holds the JSON text
\* of an array of entries, the processed images are the images of the uploaded
\* files that were read followed by one image per entry that has base64 and
\* mimeType, its base64 without data-URL prefix.
C25_JsonFieldBecomesImages ==
  \A r \in Requests :
    ( /\ FilesProcessed(r)
      /\ req[r].paste.encoding = "multipart"
      /\ req[r].paste.entries # <<>> )
    => [i \in 1..Len(req[r].processedImages) |->
          [base64 |-> req[r].processedImages[i].base64,
           mimeType |-> req[r].processedImages[i].mimeType]]
         = [i \in 1..Len(SuppliedImages(r)) |->
              [base64 |-> SuppliedImages(r)[i].base64,
               mimeType |-> SuppliedImages(r)[i].mimetype]]
             \o ExpectedPasted(req[r].paste.entries)

\* Conversation c exists and belongs to user u.
Owns(u, c) == c \in ConvIds /\ ConvOwner(c) = u

\* The tables hold what they held: messages, users, conversations.
TablesUnchanged ==
  /\ messages' = messages
  /\ users' = users
  /\ conversations' = conversations

\* C26: no step of a send-message request or of a message-list request of a
\* loaded user on a conversation that does not exist or belongs to another
\* user changes the messages, any user's tokenUsed or any conversation's
\* title or updatedAt; the send calls no provider; and the request, when none
\* of its calls is rejected, ends with status 404.
C26_NotFoundChangesNothing ==
  [][/\ \A r \in Requests :
          ( /\ pc'[r] # pc[r]
            /\ req'[r].user.id # ""
            /\ ~Owns(req'[r].user.id, req'[r].conversationId) )
          => /\ TablesUnchanged
             /\ req'[r].invoked = <<>> /\ pc'[r] \notin CallStages
             /\ (pc'[r] = "done" /\ req'[r].failed = {}) => req'[r].status = 404
     /\ \A l \in ListRequests :
          ( /\ lst'[l].pc # lst[l].pc
            /\ lst'[l].user # ""
            /\ ~Owns(lst'[l].user, lst'[l].conversationId) )
          => /\ TablesUnchanged
             /\ (lst'[l].pc = "done" /\ lst'[l].failed = {}) => lst'[l].status = 404]_vars

C26_Witness ==
  /\ \E r \in Requests :
       /\ pc[r] = "done" /\ req[r].status = 404
       /\ req[r].user.id = "u1" /\ req[r].conversationId = 2
  /\ \E l \in ListRequests :
       /\ lst[l].pc = "done" /\ lst[l].status = 404
       /\ lst[l].user = "u1" /\ lst[l].conversationId = MissingConv
  /\ messages = <<>>
  /\ \A c \in ConvIds : conversations[c] =
       [userId |-> ConvOwner(c), title |-> "New Conversation", updatedAt |-> 0]

\* The rows of the conversation of row i that precede row i.
EarlierInConversation(i) ==
  {j \in 1..(i - 1) : messages[j].conversationId = messages[i].conversationId}

\* Row j is the row right before row i in the history of i's conversation.
ImmediatelyPrecedes(j, i) ==
  /\ j \in EarlierInConversation(i)
  /\ \A k \in EarlierInConversation(i) : k <= j

\* C27: in a run in which no storage call and no provider call fails, every
\* assistant row is immediately preceded, in the history of its conversation,
\* by the user row of the request that inserted it, and the turn of the user
\* row a request inserted is the last turn of the payload it sends.
C27_PairsStayTogether ==
  (~faults /\ ConfiguredWorking = ProviderSet) =>
    \A r \in Requests :
      /\ req[r].aiMessage # 0 => ImmediatelyPrecedes(req[r].userMessage, req[r].aiMessage)
      /\ req[r].chatMessages # <<>> => CurrentTurn(r) = Len(req[r].chatMessages)

\* C28: when a send has ended with the not-found response or with the 500
\* response, none of the files it stored is left on disk.
C28_FilesDeletedOnFailure ==
  \A r \in Requests :
    (pc[r] = "done" /\ req[r].status \in {404, 500}) => disk \cap Paths(req[r].files) = {}

\* ------------------------------------------------------------------------
\* C29: once an administrator has set a user's isActive to false, every
\* later request of that user on a route guarded by isAuthenticated (the send
\* route here) is answered with 401, also with a
\* session created before the deactivation, and also when loading the user
\* record fails in loadUser.
\* Users start active, so an inactive user is one an administrator
\* deactivated (AdminToggleStatus).
Deactivated(u) == u \in Users /\ ~users[u].isActive

C29_DeactivatedAnswered401 ==
  [][\A r \in Requests :
       (pc[r] = "idle" /\ pc'[r] # "idle" /\ Deactivated(req'[r].session))
         => (pc'[r] = "done" /\ req'[r].status = 401)]_vars

\* ------------------------------------------------------------------------
\* The accounts' emails.
Registered(email) == \E u \in Users : EmailOf(u) = email

\* A forgot-password request that was answered with no database statement
\* and no mail delivery failing.
Answered(f) == forgot[f].pc = "done" /\ forgot[f].failed = {}

\* C30: whether the email service is enabled or not, two forgot-password
\* requests that differ only in whether the submitted email belongs to an
\* account receive the same status code and the same message.
C30_ExistenceNotRevealed ==
  \A f, g \in ForgotRequests :
    (Answered(f) /\ Answered(g) /\ Registered(forgot[f].email) /\ ~Registered(forgot[g].email))
      => (forgot[f].status = forgot[g].status /\ forgot[f].message = forgot[g].message)

====
